---- MODULE Spec2Model ----
(***************************************************************************)
(* Hybrid monthly-prediction engine of the run-rate forecasting server.   *)
(*                                                                         *)
(* Numbers.  Energies are non-negative integers in Wh (0.001 kWh).  The    *)
(* engine's full-precision intermediate values are exact rationals         *)
(* <<numerator, denominator>> in lowest terms (the code uses IEEE doubles; *)
(* the comparisons the code makes on them, percent thresholds at 25, 50,   *)
(* 80 and 100 for month lengths 28..31, give the same answers on doubles   *)
(* and on exact rationals).  toFixed(2) rounds to hundredths of a kWh and  *)
(* toFixed(1) to tenths of a percent; reported fields carry these rounded  *)
(* integers.  Dates "YYYY-MM-DD" are triples <<y, m, d>>; their string     *)
(* order is the lexicographic order of the triples.                        *)
(***************************************************************************)
EXTENDS Integers, Sequences, FiniteSets, TLC

VARIABLES pc, args, loc, fetched, previousMonthData, result,
          hpc, req, http, response, calls, parked, agg

vars == <<pc, args, loc, fetched, previousMonthData, result,
          hpc, req, http, response, calls, parked, agg>>

\* The state of one /api/predict request: the handler's position, the parsed
\* query and the clock, the handler's locals, the response
hvars == <<hpc, req, http, response>>

\* What a request does not touch while it runs: the state of the other
\* request in flight (parked at one of its awaits), and the aggregation
\* pipeline applied on its own
others == <<parked, agg>>

\* ------------------------------------------------------------------------
\* Bounds of the explored inputs
\* ------------------------------------------------------------------------
MaxHead == 1            \* entries of the month before the series month
MaxCutoffBack == 1      \* cutoff days up to this many days before the latest entry

\* ------------------------------------------------------------------------
\* Program constants
\* ------------------------------------------------------------------------
MIN_DAYS_REQUIRED == 1
HYBRID_THRESHOLD == 3

\* null / undefined of an optional number (absent query parameter)
null == -1

\* Number.isFinite(x) for an optional number
IsFinite(x) == x # null

\* !x for an optional number: null and 0 are falsy
Falsy(x) == x = null \/ x = 0

\* ------------------------------------------------------------------------
\* Exact rationals in lowest terms
\* ------------------------------------------------------------------------
RECURSIVE GCD(_, _)
GCD(a, b) == IF b = 0 THEN a ELSE GCD(b, a % b)

Rat(n, d) == LET g == GCD(n, d) IN IF g = 0 THEN <<0, 1>> ELSE <<n \div g, d \div g>>

RatInt(n) == <<n, 1>>
RatAdd(a, b) == Rat(a[1] * b[2] + b[1] * a[2], a[2] * b[2])
RatSub(a, b) == Rat(a[1] * b[2] - b[1] * a[2], a[2] * b[2])
RatMul(a, b) == Rat(a[1] * b[1], a[2] * b[2])
RatDiv(a, b) == Rat(a[1] * b[2], a[2] * b[1])
RatLeq(a, b) == a[1] * b[2] <= b[1] * a[2]
RatLess(a, b) == a[1] * b[2] < b[1] * a[2]
RatMin(a, b) == IF RatLeq(a, b) THEN a ELSE b

\* parseFloat(x.toFixed(2)) of a value in Wh: hundredths of a kWh, half up
ToFixed2(q) == (2 * q[1] + 10 * q[2]) \div (20 * q[2])

\* x.toFixed(1) of a percentage: tenths of a percent, half up
ToFixed1(q) == (20 * q[1] + q[2]) \div (2 * q[2])

Max(a, b) == IF a >= b THEN a ELSE b

\* ------------------------------------------------------------------------
\* Period calendar
\* ------------------------------------------------------------------------
IsLeap(y) == (y % 4 = 0 /\ y % 100 # 0) \/ y % 400 = 0

\* new Date(Date.UTC(year, month, 0)).getUTCDate()
getDaysInMonth(year, month) ==
    IF month = 2 THEN (IF IsLeap(year) THEN 29 ELSE 28)
    ELSE IF month \in {4, 6, 9, 11} THEN 30
    ELSE 31

\* Variant: no year rollover before January
getPreviousMonth_SameYear(year, month) ==
    IF month = 1
    THEN [prevYear |-> year, prevMonth |-> 12]
    ELSE [prevYear |-> year, prevMonth |-> month - 1]

getPreviousMonth(year, month) ==
    IF month = 1 THEN [prevYear |-> year - 1, prevMonth |-> 12]
    ELSE [prevYear |-> year, prevMonth |-> month - 1]

\* a.localeCompare(b) < 0 on "YYYY-MM-DD" strings
DateLess(a, b) ==
    \/ a[1] < b[1]
    \/ a[1] = b[1] /\ a[2] < b[2]
    \/ a[1] = b[1] /\ a[2] = b[2] /\ a[3] < b[3]

\* ------------------------------------------------------------------------
\* Request validation
\* ------------------------------------------------------------------------
\* utcMidnightMs(a) > utcMidnightMs(b): Date.UTC is strictly increasing in
\* (year, month, day) over calendar dates
UtcAfter(a, b) == DateLess(b, a)

\* Variant: only the month compared, in any year
FutureMonth_IgnoresYear(year, month, today) == month > today[2]

\* year > todayYear || (year === todayYear && month > todayMonth)
FutureMonth(year, month, today) ==
    year > today[1] \/ (year = today[1] /\ month > today[2])

\* Variant: day 0 passes the range test
DayOutOfRange_UpperOnly(day, dim) == day > dim

\* day < 1 || day > dim
DayOutOfRange(day, dim) == day < 1 \/ day > dim

ValidationOk == [ok |-> TRUE, code |-> "", message |-> ""]

ValidationFailed(code, message) == [ok |-> FALSE, code |-> code, message |-> message]

\* today is the UTC date the clock shows when the validator runs
validateNotFutureSelection(year, month, day, today) ==
    IF ~IsFinite(year) \/ ~IsFinite(month)
    THEN (IF IsFinite(day)
          THEN ValidationFailed("INVALID_DATE", "day requires year and month")
          ELSE ValidationOk)
    ELSE IF month < 1 \/ month > 12
    THEN ValidationFailed("INVALID_DATE", "month out of range (1-12)")
    ELSE IF FutureMonth(year, month, today)
    THEN ValidationFailed("FUTURE_DATE", "Future months/years are not allowed")
    ELSE IF IsFinite(day) /\ DayOutOfRange(day, getDaysInMonth(year, month))
    THEN ValidationFailed("INVALID_DATE", "day out of range (1-dim)")
    ELSE IF IsFinite(day) /\ UtcAfter(<<year, month, day>>, today)
    THEN ValidationFailed("FUTURE_DATE", "Future dates are not allowed")
    ELSE ValidationOk

\* ------------------------------------------------------------------------
\* Daily series builder
\* ------------------------------------------------------------------------
RECURSIVE SumEnergy(_)
SumEnergy(s) == IF s = <<>> THEN 0 ELSE Head(s).energyKwh + SumEnergy(Tail(s))

\* "YYYY-MM-DD HH:00" keys compare by date, then hour
HourKey(row) == <<row.date, row.hour>>

HourKeyLess(a, b) == DateLess(a[1], b[1]) \/ (a[1] = b[1] /\ a[2] < b[2])

\* The same sequence, held as an explicit tuple
Tuple(s) == SubSeq(s, 1, Len(s))

\* The elements of a set of positions in 1..n, ascending
InOrder(S, n) ==
    LET rank == Tuple([i \in 1..n |-> Cardinality({j \in S : j <= i})])
    IN Tuple([k \in 1..Cardinality(S) |-> CHOOSE i \in S : rank[i] = k])

\* An object filled by forEach holds one entry per key, in the order the
\* keys were first seen: the positions at which a key occurs first
FirstOccurrences(keys) ==
    InOrder({i \in DOMAIN keys : \A j \in 1..(i - 1) : keys[j] # keys[i]}, Len(keys))

RECURSIVE SumRows(_, _)
SumRows(rows, S) ==
    IF S = {} THEN 0
    ELSE LET i == CHOOSE j \in S : TRUE
         IN rows[i].energy_consumed_kwh + SumRows(rows, S \ {i})

RECURSIVE SumHours(_, _)
SumHours(hours, S) ==
    IF S = {} THEN 0
    ELSE LET i == CHOOSE j \in S : TRUE
         IN hours[i].energyKwh + SumHours(hours, S \ {i})

\* meterData.forEach(...): the entry of a row's hour is created when absent,
\* then the row's energy and count are added to it
HourlyEntries(meterData) ==
    LET keys == Tuple([i \in DOMAIN meterData |-> HourKey(meterData[i])])
        firsts == FirstOccurrences(keys)
    IN Tuple([k \in DOMAIN firsts |->
           LET same == {j \in DOMAIN meterData : keys[j] = keys[firsts[k]]}
           IN [timestamp |-> keys[firsts[k]],
               hour |-> meterData[firsts[k]].hour,
               date |-> meterData[firsts[k]].date,
               energyKwh |-> SumRows(meterData, same),
               count |-> Cardinality(same)]])

\* Variant: an hour's energy assigned to its date, not added to it
DailyEntries_Overwrites(hourlyData) ==
    LET keys == Tuple([i \in DOMAIN hourlyData |-> hourlyData[i].date])
        firsts == FirstOccurrences(keys)
    IN Tuple([k \in DOMAIN firsts |->
           LET same == {j \in DOMAIN hourlyData : keys[j] = keys[firsts[k]]}
               last == CHOOSE j \in same : \A i \in same : i <= j
           IN [date |-> keys[firsts[k]],
               energyKwh |-> hourlyData[last].energyKwh,
               hoursCount |-> Cardinality(same)]])

\* hourlyData.forEach(...): likewise per date
DailyEntries(hourlyData) ==
    LET keys == Tuple([i \in DOMAIN hourlyData |-> hourlyData[i].date])
        firsts == FirstOccurrences(keys)
    IN Tuple([k \in DOMAIN firsts |->
           LET same == {j \in DOMAIN hourlyData : keys[j] = keys[firsts[k]]}
           IN [date |-> keys[firsts[k]],
               energyKwh |-> SumHours(hourlyData, same),
               hoursCount |-> Cardinality(same)]])

\* .sort((a, b) => a.timestamp.localeCompare(b.timestamp)): a stable sort
\* puts an entry after those of a smaller key and those of an equal key
\* that stood before it
SortByTimestamp(entries) ==
    LET Before(j, i) == \/ HourKeyLess(entries[j].timestamp, entries[i].timestamp)
                        \/ entries[j].timestamp = entries[i].timestamp /\ j < i
        pos == Tuple([i \in DOMAIN entries |->
                         1 + Cardinality({j \in DOMAIN entries : Before(j, i)})])
    IN Tuple([p \in DOMAIN entries |-> entries[CHOOSE i \in DOMAIN entries : pos[i] = p]])

\* .sort((a, b) => a.date.localeCompare(b.date))
SortByDate(entries) ==
    LET Before(j, i) == \/ DateLess(entries[j].date, entries[i].date)
                        \/ entries[j].date = entries[i].date /\ j < i
        pos == Tuple([i \in DOMAIN entries |->
                         1 + Cardinality({j \in DOMAIN entries : Before(j, i)})])
    IN Tuple([p \in DOMAIN entries |-> entries[CHOOSE i \in DOMAIN entries : pos[i] = p]])

\* The rows summed per hour key, sorted by timestamp
calculateHourlyTotals(meterData) == SortByTimestamp(HourlyEntries(meterData))

\* The hours summed per date, sorted by date
calculateDailyTotals(hourlyData) == SortByDate(DailyEntries(hourlyData))

\* ------------------------------------------------------------------------
\* Hybrid prediction helpers
\* ------------------------------------------------------------------------
\* Variant: the weights of the design document (25% / 40% current)
calculateCurrentMonthWeight_Doc(daysAnalyzed) ==
    IF daysAnalyzed = 1 THEN Rat(25, 100)
    ELSE IF daysAnalyzed = 2 THEN Rat(40, 100)
    ELSE Rat(25, 100)

\* Variant: the current period alone carries the blend
calculateCurrentMonthWeight_AllCurrent(daysAnalyzed) == RatInt(1)

calculateCurrentMonthWeight(daysAnalyzed) ==
    IF daysAnalyzed = 1 THEN Rat(30, 100)
    ELSE IF daysAnalyzed = 2 THEN Rat(50, 100)
    ELSE Rat(30, 100)

\* Outcome of fetchReadingsInRange(range.start, range.end, meterId) as seen
\* by its caller: rejected, or resolved with the rows of the meter in the
\* month.  The stored rows are readings of days 1..days of the month in
\* timestamp order (ORDER BY ts ASC): two readings on day 1, at hours 0 and
\* 1, and one reading at hour 0 on every later day
NoFetch ==
    [state |-> "none", year |-> 0, month |-> 0, meter |-> "", days |-> 0, flat |-> FALSE]
FetchRejected(year, month, meterId) ==
    [state |-> "rejected", year |-> year, month |-> month, meter |-> meterId,
     days |-> 0, flat |-> FALSE]
FetchResolved(year, month, meterId, days) ==
    [state |-> "resolved", year |-> year, month |-> month, meter |-> meterId,
     days |-> days, flat |-> FALSE]

\* Resolved with rows of a meter whose consumption is the same on every day
FetchResolvedFlat(year, month, meterId, days) ==
    [state |-> "resolved", year |-> year, month |-> month, meter |-> meterId,
     days |-> days, flat |-> TRUE]

\* Daily consumption of the flat prior series
FlatDailyEnergy == 85

RowCount(fetch) == IF fetch.days = 0 THEN 0 ELSE fetch.days + 1

RowsOf(fetch) ==
    [i \in 1..RowCount(fetch) |->
        LET day == IF i <= 2 THEN 1 ELSE i - 1
            hour == IF i = 2 THEN 1 ELSE 0
        IN [meter_id |-> fetch.meter,
            date |-> <<fetch.year, fetch.month, day>>,
            hour |-> hour,
            energy_consumed_kwh |->
                IF fetch.flat
                THEN IF i = 1 THEN FlatDailyEnergy \div 2
                     ELSE IF i = 2 THEN FlatDailyEnergy - FlatDailyEnergy \div 2
                     ELSE FlatDailyEnergy
                ELSE 70 + 2 * day + hour]]

\* Value of an optional daily series
NoData == [state |-> "none", data |-> <<>>]
NullData == [state |-> "null", data |-> <<>>]
SomeData(d) == [state |-> "data", data |-> d]

\* Variant: no completeness check on the prior series
TooSparse_Never(length, daysInMonth) == FALSE

\* Variant: a prior series of exactly half the month counts as sparse
TooSparse_Inclusive(length, daysInMonth) == length * 100 <= 50 * daysInMonth

\* dataCompleteness < 50, with dataCompleteness = (length / daysInMonth) * 100
TooSparse(length, daysInMonth) == length * 100 < 50 * daysInMonth

loadPreviousMonthData(fetch, year, month) ==
    IF fetch.state = "rejected" THEN NullData
    ELSE LET rawData == Tuple(RowsOf(fetch)) IN
    IF Len(rawData) = 0 THEN NullData
    ELSE LET hourlyData == calculateHourlyTotals(rawData)
             dailyData == calculateDailyTotals(hourlyData)
         IN IF TooSparse(Len(dailyData), getDaysInMonth(year, month))
            THEN NullData
            ELSE SomeData(dailyData)

\* ------------------------------------------------------------------------
\* Confidence scorer
\* ------------------------------------------------------------------------
\* Variant: the low-data boost given whenever the hybrid path was taken
calculateConfidenceHybrid_IgnoresPriorData(daysAnalyzed, totalDays, isHybridMode, hasPreviousData) ==
    LET percentComplete == Rat(daysAnalyzed * 100, totalDays)
    IN IF percentComplete = RatInt(100)
       THEN [level |-> "exact", score |-> 100, enhancement |-> FALSE, warning |-> FALSE]
       ELSE IF RatLeq(RatInt(80), percentComplete)
       THEN [level |-> "very_high", score |-> 90, enhancement |-> FALSE, warning |-> FALSE]
       ELSE IF RatLeq(RatInt(50), percentComplete)
       THEN [level |-> "high", score |-> 80, enhancement |-> FALSE, warning |-> FALSE]
       ELSE IF RatLeq(RatInt(25), percentComplete)
       THEN [level |-> "medium", score |-> 65, enhancement |-> FALSE, warning |-> FALSE]
       ELSE IF isHybridMode
       THEN (IF daysAnalyzed = 2
             THEN [level |-> "medium_hybrid", score |-> 55, enhancement |-> TRUE, warning |-> FALSE]
             ELSE [level |-> "low_hybrid", score |-> 45, enhancement |-> TRUE, warning |-> FALSE])
       ELSE IF daysAnalyzed = 2
       THEN [level |-> "low", score |-> 35, enhancement |-> FALSE, warning |-> TRUE]
       ELSE [level |-> "very_low", score |-> 25, enhancement |-> FALSE, warning |-> TRUE]

\* Variant: the percentage thresholds compared strictly (> for >=)
calculateConfidenceHybrid_StrictThresholds(daysAnalyzed, totalDays, isHybridMode, hasPreviousData) ==
    LET percentComplete == Rat(daysAnalyzed * 100, totalDays)
    IN IF percentComplete = RatInt(100)
       THEN [level |-> "exact", score |-> 100, enhancement |-> FALSE, warning |-> FALSE]
       ELSE IF RatLess(RatInt(80), percentComplete)
       THEN [level |-> "very_high", score |-> 90, enhancement |-> FALSE, warning |-> FALSE]
       ELSE IF RatLess(RatInt(50), percentComplete)
       THEN [level |-> "high", score |-> 80, enhancement |-> FALSE, warning |-> FALSE]
       ELSE IF RatLess(RatInt(25), percentComplete)
       THEN [level |-> "medium", score |-> 65, enhancement |-> FALSE, warning |-> FALSE]
       ELSE IF isHybridMode /\ hasPreviousData
       THEN (IF daysAnalyzed = 2
             THEN [level |-> "medium_hybrid", score |-> 55, enhancement |-> TRUE, warning |-> FALSE]
             ELSE [level |-> "low_hybrid", score |-> 45, enhancement |-> TRUE, warning |-> FALSE])
       ELSE IF daysAnalyzed = 2
       THEN [level |-> "low", score |-> 35, enhancement |-> FALSE, warning |-> TRUE]
       ELSE [level |-> "very_low", score |-> 25, enhancement |-> FALSE, warning |-> TRUE]

calculateConfidenceHybrid(daysAnalyzed, totalDays, isHybridMode, hasPreviousData) ==
    LET percentComplete == Rat(daysAnalyzed * 100, totalDays)
    IN IF percentComplete = RatInt(100)
       THEN [level |-> "exact", score |-> 100, enhancement |-> FALSE, warning |-> FALSE]
       ELSE IF RatLeq(RatInt(80), percentComplete)
       THEN [level |-> "very_high", score |-> 90, enhancement |-> FALSE, warning |-> FALSE]
       ELSE IF RatLeq(RatInt(50), percentComplete)
       THEN [level |-> "high", score |-> 80, enhancement |-> FALSE, warning |-> FALSE]
       ELSE IF RatLeq(RatInt(25), percentComplete)
       THEN [level |-> "medium", score |-> 65, enhancement |-> FALSE, warning |-> FALSE]
       ELSE IF isHybridMode /\ hasPreviousData
       THEN (IF daysAnalyzed = 2
             THEN [level |-> "medium_hybrid", score |-> 55, enhancement |-> TRUE, warning |-> FALSE]
             ELSE [level |-> "low_hybrid", score |-> 45, enhancement |-> TRUE, warning |-> FALSE])
       ELSE IF daysAnalyzed = 2
       THEN [level |-> "low", score |-> 35, enhancement |-> FALSE, warning |-> TRUE]
       ELSE [level |-> "very_low", score |-> 25, enhancement |-> FALSE, warning |-> TRUE]

\* ------------------------------------------------------------------------
\* predictMonthHybrid: the synchronous part before the prior-period load
\* ------------------------------------------------------------------------
\* STEP 2: the requested period, or the period of the latest entry
ResolvePeriod(dailyData, targetYear, targetMonth) ==
    IF Falsy(targetYear) \/ Falsy(targetMonth)
    THEN LET latestDate == dailyData[Len(dailyData)].date
         IN [year |-> latestDate[1], month |-> latestDate[2]]
    ELSE [year |-> targetYear, month |-> targetMonth]

\* Variant: the cutoff day not applied
FilterMonthData_NoCutoff(dailyData, year, month, targetDay) ==
    LET Keep(d) == d.date[1] = year /\ d.date[2] = month
    IN SelectSeq(dailyData, Keep)

\* STEP 3: entries of the target year/month, up to the cutoff day if given
FilterMonthData(dailyData, year, month, targetDay) ==
    LET Keep(d) == /\ d.date[1] = year
                   /\ d.date[2] = month
                   /\ ~(IsFinite(targetDay) /\ d.date[3] > targetDay)
    IN SelectSeq(dailyData, Keep)

EffectiveDayLimit(targetDay, daysPassedMonth) ==
    IF IsFinite(targetDay) THEN targetDay ELSE daysPassedMonth

\* Variant: the percentage without the cap at 100
PercentComplete_Uncapped(effectiveDayLimit, daysInCurrentMonth) ==
    Rat(effectiveDayLimit * 100, daysInCurrentMonth)

\* Variant: the fraction of the period, not the percentage
PercentComplete_Fraction(effectiveDayLimit, daysInCurrentMonth) ==
    RatMin(Rat(effectiveDayLimit, daysInCurrentMonth), RatInt(100))

PercentComplete(effectiveDayLimit, daysInCurrentMonth) ==
    RatMin(Rat(effectiveDayLimit * 100, daysInCurrentMonth), RatInt(100))

\* Variant: complete only past the last day of the period
IsComplete_Strict(effectiveDayLimit, daysInCurrentMonth) ==
    effectiveDayLimit > daysInCurrentMonth

IsComplete(effectiveDayLimit, daysInCurrentMonth) ==
    effectiveDayLimit >= daysInCurrentMonth

\* Variant: the mode decision without the completeness test
UseHybridMode_IgnoresComplete(daysPassedMonth, isComplete) ==
    daysPassedMonth < HYBRID_THRESHOLD

\* Variant: the threshold compared with <=
UseHybridMode_ThresholdInclusive(daysPassedMonth, isComplete) ==
    daysPassedMonth <= HYBRID_THRESHOLD /\ ~isComplete

UseHybridMode(daysPassedMonth, isComplete) ==
    daysPassedMonth < HYBRID_THRESHOLD /\ ~isComplete

\* STEP 4 and the mode decision of STEP 5
CurrentMetrics(dailyData, targetYear, targetMonth, targetDay) ==
    LET period == ResolvePeriod(dailyData, targetYear, targetMonth)
        monthData == FilterMonthData(dailyData, period.year, period.month, targetDay)
        totalEnergyMonth == SumEnergy(monthData)
        daysPassedMonth == Len(monthData)
        daysInCurrentMonth == getDaysInMonth(period.year, period.month)
        effectiveDayLimit == EffectiveDayLimit(targetDay, daysPassedMonth)
        isComplete == IsComplete(effectiveDayLimit, daysInCurrentMonth)
        prev == getPreviousMonth(period.year, period.month)
    IN [year |-> period.year,
        month |-> period.month,
        monthData |-> monthData,
        totalEnergyMonth |-> totalEnergyMonth,
        daysPassedMonth |-> daysPassedMonth,
        daysInCurrentMonth |-> daysInCurrentMonth,
        avgCurrentMonth |-> IF daysPassedMonth = 0 THEN RatInt(0)
                            ELSE Rat(totalEnergyMonth, daysPassedMonth),
        effectiveDayLimit |-> effectiveDayLimit,
        percentComplete |-> PercentComplete(effectiveDayLimit, daysInCurrentMonth),
        isComplete |-> isComplete,
        useHybridMode |-> UseHybridMode(daysPassedMonth, isComplete),
        prevYear |-> prev.prevYear,
        prevMonth |-> prev.prevMonth]

\* ------------------------------------------------------------------------
\* predictMonthHybrid: the three ways to a predicted total
\* ------------------------------------------------------------------------
NullMetadata == [isNull |-> TRUE]

IsNullMetadata(h) == "isNull" \in DOMAIN h

\* hybridMetadata?.previousMonth != null
HasPreviousMonth(h) == "previousMonth" \in DOMAIN h

\* Variant: only the hybrid mode is reported
PredictionMode_HybridOnly(h) ==
    IF IsNullMetadata(h) THEN "standard"
    ELSE IF h.mode = "hybrid" THEN "hybrid" ELSE "standard"

\* hybridMetadata?.mode || 'standard'
PredictionMode(h) == IF IsNullMetadata(h) THEN "standard" ELSE h.mode

\* Variant: the run rate projected over the remaining days only
StandardPrediction_RemainingOnly(m) ==
    [predictedMonthKwh |-> IF m.isComplete
                           THEN RatInt(m.totalEnergyMonth)
                           ELSE RatMul(m.avgCurrentMonth,
                                       RatInt(m.daysInCurrentMonth - m.daysPassedMonth)),
     averageDailyRate |-> m.avgCurrentMonth,
     hybridMetadata |-> NullMetadata]

\* Variant: the run-rate projection also on a complete period
StandardPrediction_AlwaysProjects(m) ==
    [predictedMonthKwh |-> RatMul(m.avgCurrentMonth, RatInt(m.daysInCurrentMonth)),
     averageDailyRate |-> m.avgCurrentMonth,
     hybridMetadata |-> NullMetadata]

\* Variant: the run-rate projection over a fixed 30-day period
StandardPrediction_ThirtyDays(m) ==
    [predictedMonthKwh |-> IF m.isComplete
                           THEN RatInt(m.totalEnergyMonth)
                           ELSE RatMul(m.avgCurrentMonth, RatInt(30)),
     averageDailyRate |-> m.avgCurrentMonth,
     hybridMetadata |-> NullMetadata]

StandardPrediction(m) ==
    [predictedMonthKwh |-> IF m.isComplete
                           THEN RatInt(m.totalEnergyMonth)
                           ELSE RatMul(m.avgCurrentMonth, RatInt(m.daysInCurrentMonth)),
     averageDailyRate |-> m.avgCurrentMonth,
     hybridMetadata |-> NullMetadata]

\* Variant: the plain mean of the two averages
HybridAverage_Unweighted(avgCurrentMonth, weightCurrent, avgPreviousMonth, weightPrevious) ==
    RatDiv(RatAdd(avgCurrentMonth, avgPreviousMonth), RatInt(2))

HybridAverage(avgCurrentMonth, weightCurrent, avgPreviousMonth, weightPrevious) ==
    RatAdd(RatMul(avgCurrentMonth, weightCurrent), RatMul(avgPreviousMonth, weightPrevious))

\* Variant: the blended rate projected over the whole period
HybridProjection_WholePeriod(totalEnergyMonth, avgHybrid, daysInCurrentMonth, daysPassedMonth) ==
    RatMul(avgHybrid, RatInt(daysInCurrentMonth))

HybridProjection(totalEnergyMonth, avgHybrid, daysInCurrentMonth, daysPassedMonth) ==
    RatAdd(RatInt(totalEnergyMonth),
           RatMul(avgHybrid, RatInt(Max(daysInCurrentMonth - daysPassedMonth, 0))))

HybridPrediction(m, prevData) ==
    LET totalEnergyPrevious == SumEnergy(prevData)
        daysInPreviousMonth == getDaysInMonth(m.prevYear, m.prevMonth)
        avgPreviousMonth == Rat(totalEnergyPrevious, Len(prevData))
        weightCurrent == calculateCurrentMonthWeight(m.daysPassedMonth)
        weightPrevious == RatSub(RatInt(1), weightCurrent)
        avgHybrid == HybridAverage(m.avgCurrentMonth, weightCurrent,
                                   avgPreviousMonth, weightPrevious)
    IN [predictedMonthKwh |-> HybridProjection(m.totalEnergyMonth, avgHybrid,
                                               m.daysInCurrentMonth, m.daysPassedMonth),
        averageDailyRate |-> avgHybrid,
        hybridMetadata |->
            [mode |-> "hybrid",
             previousMonth |-> [year |-> m.prevYear,
                                month |-> m.prevMonth,
                                daysUsed |-> Len(prevData),
                                totalDays |-> daysInPreviousMonth,
                                totalEnergy |-> ToFixed2(RatInt(totalEnergyPrevious)),
                                avgDaily |-> ToFixed2(avgPreviousMonth)],
             currentMonth |-> [daysUsed |-> m.daysPassedMonth,
                               totalEnergy |-> ToFixed2(RatInt(m.totalEnergyMonth)),
                               avgDaily |-> ToFixed2(m.avgCurrentMonth)],
             weights |-> [current |-> weightCurrent, previous |-> weightPrevious],
             hybridAvgDaily |-> ToFixed2(avgHybrid),
             improvement |-> <<"Using previous month data", m.prevYear, m.prevMonth>>]]

FallbackPrediction(m) ==
    [predictedMonthKwh |-> RatMul(m.avgCurrentMonth, RatInt(m.daysInCurrentMonth)),
     averageDailyRate |-> m.avgCurrentMonth,
     hybridMetadata |-> [mode |-> "standard_fallback",
                         reason |-> "Previous month data not available",
                         warning |-> "Prediction based on limited current month data only"]]

\* previousMonthData && previousMonthData.length > 0
PriorUsable(prev) == prev.state = "data" /\ Len(prev.data) > 0

\* STEP 6 and STEP 7
BuildResult(m, p, targetDay) ==
    [success |-> TRUE,
     year |-> m.year,
     month |-> m.month,
     daysPassedMonth |-> m.daysPassedMonth,
     daysInCurrentMonth |-> m.daysInCurrentMonth,
     totalEnergyMonth |-> ToFixed2(RatInt(m.totalEnergyMonth)),
     predictedMonthKwh |-> ToFixed2(p.predictedMonthKwh),
     averageDailyRate |-> ToFixed2(p.averageDailyRate),
     percentMonthComplete |-> ToFixed1(m.percentComplete),
     isComplete |-> m.isComplete,
     valueSource |-> IF m.isComplete THEN "actual" ELSE "projection",
     targetDay |-> IF IsFinite(targetDay) THEN targetDay ELSE null,
     predictionMode |-> PredictionMode(p.hybridMetadata),
     hybrid |-> p.hybridMetadata,
     confidence |-> calculateConfidenceHybrid(m.daysPassedMonth, m.daysInCurrentMonth,
                                              m.useHybridMode,
                                              HasPreviousMonth(p.hybridMetadata))]

\* Variant: the entries of the target period are not counted
InsufficientMonthData_Never(daysPassedMonth) == FALSE

\* STEP 3 guard: monthData.length < MIN_DAYS_REQUIRED
InsufficientMonthData(daysPassedMonth) == daysPassedMonth < MIN_DAYS_REQUIRED

\* STEP 1: fewer than MIN_DAYS_REQUIRED entries in the series
TooFewDays(dailyData) ==
    [success |-> FALSE,
     message |-> [text |-> "Need at least N days of data. Currently have K day(s).",
                  N |-> MIN_DAYS_REQUIRED, K |-> Len(dailyData)]]

\* STEP 3: fewer than MIN_DAYS_REQUIRED entries in the target period
TooFewDaysOfMonth(year, month) ==
    [success |-> FALSE,
     message |-> [text |-> "Need at least N days of YYYY-MM.",
                  N |-> MIN_DAYS_REQUIRED, year |-> year, month |-> month]]

\* ------------------------------------------------------------------------
\* Inputs: daily series, period descriptors, prior-period readings
\* ------------------------------------------------------------------------
\* Series months: a 31-day month after a year boundary, a leap February,
\* a month after a 28-day month, a 30-day month
Periods == {<<2025, 1>>, <<2024, 2>>, <<2025, 3>>, <<2025, 4>>}

MeterId == "M1"

EnergyOf(day) == 80 + 5 * day

\* The last `head` days of the month before (y, m), then days 1..to of
\* (y, m): ascending, one entry per date
SeriesOf(y, m, head, to) ==
    LET prev == getPreviousMonth(y, m)
        pdim == getDaysInMonth(prev.prevYear, prev.prevMonth)
    IN [i \in 1..(head + to) |->
           IF i <= head
           THEN [date |-> <<prev.prevYear, prev.prevMonth, pdim - head + i>>,
                 energyKwh |-> EnergyOf(pdim - head + i)]
           ELSE [date |-> <<y, m, i - head>>,
                 energyKwh |-> EnergyOf(i - head)]]

SeriesSet ==
    {SeriesOf(p[1], p[2], head, to) :
        p \in Periods, head \in 0..MaxHead, to \in 0..31}

\* Cutoff days offered for a series: none, the days around its latest entry
\* (the request handler loads readings up to the cutoff day), the last day of
\* that entry's month, and the largest day number of any month
CutoffsFor(dailyData) ==
    IF dailyData = <<>> THEN {null, 1}
    ELSE LET last == dailyData[Len(dailyData)].date
             dim == getDaysInMonth(last[1], last[2])
         IN {null, dim, 31} \cup ({last[3] - k : k \in 0..MaxCutoffBack} \ {0})

\* Requested periods offered for a series: none, the month of its latest
\* entry, the month of its first entry
TargetsFor(dailyData) ==
    IF dailyData = <<>> THEN {<<null, null>>, <<2025, 1>>}
    ELSE {<<null, null>>,
          <<dailyData[Len(dailyData)].date[1], dailyData[Len(dailyData)].date[2]>>,
          <<dailyData[1].date[1], dailyData[1].date[2]>>}

FetchOutcomes(year, month, meterId) ==
    {FetchRejected(year, month, meterId)} \cup
    {FetchResolved(year, month, meterId, n) : n \in 0..getDaysInMonth(year, month)} \cup
    {FetchResolvedFlat(year, month, meterId, getDaysInMonth(year, month))}

\* Outcomes of the prior-period query offered while a request is served:
\* rejected, no rows, just under half of the month, half of it, all of it
RequestFetchOutcomes(year, month, meterId) ==
    LET dim == getDaysInMonth(year, month)
    IN {FetchRejected(year, month, meterId)} \cup
       {FetchResolved(year, month, meterId, n) :
           n \in {0, (dim - 1) \div 2, (dim + 1) \div 2, dim}}

\* ------------------------------------------------------------------------
\* State machine
\* ------------------------------------------------------------------------
NoArgs == [dailyData |-> <<>>, targetYear |-> null, targetMonth |-> null,
           targetDay |-> null, meterId |-> MeterId]

NoLocals == [isNull |-> TRUE]

NoResult == [isNull |-> TRUE]

\* Calls made since the request (or the direct call) began
NoCalls == [loadMonthReadings |-> 0, predictMonthHybrid |-> 0, loadPreviousMonthData |-> 0]

NoReq == [year |-> null, month |-> null, day |-> null, today |-> <<0, 0, 0>>]

NoLoad == [state |-> "none", year |-> 0, month |-> 0, days |-> 0, meters |-> <<>>]

NoHttp == [validation |-> ValidationOk, data |-> NoLoad, meterIds |-> <<>>, idx |-> 0,
           results |-> [totalRecords |-> 0, meters |-> <<>>]]

NoResponse == [status |-> 0]

\* A request that has not arrived
IdleRequest ==
    [pc |-> "idle", args |-> NoArgs, loc |-> NoLocals, fetched |-> NoFetch,
     previousMonthData |-> NoData, result |-> NoResult,
     hpc |-> "idle", req |-> NoReq, http |-> NoHttp, response |-> NoResponse,
     calls |-> NoCalls]

\* The aggregation pipeline before it is given readings
NoAggregation == [stage |-> "none", readings |-> <<>>, hourly |-> <<>>, daily |-> <<>>]

\* No call and no request in flight
Quiescent ==
    /\ pc = "idle"
    /\ args = NoArgs
    /\ loc = NoLocals
    /\ fetched = NoFetch
    /\ previousMonthData = NoData
    /\ result = NoResult
    /\ hpc = "idle"
    /\ req = NoReq
    /\ http = NoHttp
    /\ response = NoResponse
    /\ calls = NoCalls
    /\ parked = IdleRequest

Init ==
    /\ Quiescent
    /\ agg = NoAggregation

\* A call of predictMonthHybrid runs to its first await or to its return
predictMonthHybrid(dailyData, targetYear, targetMonth, targetDay, meterId) ==
    /\ pc = "idle"
    /\ args' = [dailyData |-> dailyData, targetYear |-> targetYear,
                targetMonth |-> targetMonth, targetDay |-> targetDay,
                meterId |-> meterId]
    /\ UNCHANGED <<fetched, previousMonthData>>
    /\ IF Len(dailyData) < MIN_DAYS_REQUIRED
       THEN /\ result' = TooFewDays(dailyData)
            /\ loc' = NoLocals
            /\ pc' = "done"
            /\ calls' = [calls EXCEPT !.predictMonthHybrid = @ + 1]
       ELSE LET m == CurrentMetrics(dailyData, targetYear, targetMonth, targetDay)
            IN IF InsufficientMonthData(m.daysPassedMonth)
               THEN /\ result' = TooFewDaysOfMonth(m.year, m.month)
                    /\ loc' = NoLocals
                    /\ pc' = "done"
                    /\ calls' = [calls EXCEPT !.predictMonthHybrid = @ + 1]
               ELSE IF ~m.useHybridMode
               THEN /\ result' = BuildResult(m, StandardPrediction(m), targetDay)
                    /\ loc' = [m EXCEPT !.monthData = <<>>]
                              @@ [predictedMonthKwh |-> StandardPrediction(m).predictedMonthKwh,
                                  averageDailyRate |-> StandardPrediction(m).averageDailyRate]
                    /\ pc' = "done"
                    /\ calls' = [calls EXCEPT !.predictMonthHybrid = @ + 1]
               ELSE /\ result' = NoResult
                    /\ loc' = m
                    /\ pc' = "await_previous"
                    /\ calls' = [calls EXCEPT !.predictMonthHybrid = @ + 1,
                                              !.loadPreviousMonthData = @ + 1]

\* A direct call of the engine, outside a request
Call ==
    /\ hpc = "idle"
    /\ pc = "idle"
    /\ UNCHANGED hvars
    /\ \E dailyData \in SeriesSet :
          \E target \in TargetsFor(dailyData) :
              \E targetDay \in CutoffsFor(dailyData) :
                  predictMonthHybrid(dailyData, target[1], target[2], targetDay, MeterId)
    /\ UNCHANGED others

\* loadPreviousMonthData: the query settles, the loader returns the daily
\* series of the prior period or null
PriorQuerySettles(outcome) ==
    /\ fetched' = outcome
    /\ previousMonthData' = loadPreviousMonthData(outcome, loc.prevYear, loc.prevMonth)

LoadPreviousMonthData ==
    /\ pc = "await_previous"
    /\ \E outcome \in (IF hpc = "idle"
                        THEN FetchOutcomes(loc.prevYear, loc.prevMonth, args.meterId)
                        ELSE RequestFetchOutcomes(loc.prevYear, loc.prevMonth, args.meterId)) :
          PriorQuerySettles(outcome)
    /\ pc' = "resume"
    /\ UNCHANGED <<args, loc, result, calls>>
    /\ UNCHANGED hvars
    /\ UNCHANGED others

\* predictMonthHybrid resumes with the loader's value
Resume ==
    /\ pc = "resume"
    /\ LET p == IF PriorUsable(previousMonthData)
                THEN HybridPrediction(loc, previousMonthData.data)
                ELSE FallbackPrediction(loc)
       IN /\ result' = BuildResult(loc, p, args.targetDay)
          /\ loc' = [loc EXCEPT !.monthData = <<>>]
                    @@ [predictedMonthKwh |-> p.predictedMonthKwh,
                        averageDailyRate |-> p.averageDailyRate]
    /\ pc' = "done"
    /\ UNCHANGED <<args, fetched, previousMonthData, calls>>
    /\ UNCHANGED hvars
    /\ UNCHANGED others

\* The caller takes the result; the request's objects are dropped
Return ==
    /\ pc = "done"
    /\ hpc = "idle"
    /\ pc' = "idle"
    /\ args' = NoArgs
    /\ loc' = NoLocals
    /\ fetched' = NoFetch
    /\ previousMonthData' = NoData
    /\ result' = NoResult
    /\ calls' = NoCalls
    /\ UNCHANGED hvars
    /\ UNCHANGED others

Next == Call \/ LoadPreviousMonthData \/ Resume \/ Return

Spec == Init /\ [][Next]_vars

\* ------------------------------------------------------------------------
\* The /api/predict request handler
\* ------------------------------------------------------------------------
MaxLoadedDays == 3      \* days of readings a current-period query returns

MIN_HOURS_REQUIRED == 3
ROLLING_WINDOW_HOURS == 6

\* The clock at the time of the request (UTC date)
Todays == {<<2025, 3, 2>>, <<2024, 12, 31>>}

\* Parsed query parameters: absent (null) or an integer
RequestYears == {null, 2024, 2025, 2026}
RequestMonths == {null, 0, 2, 3, 12, 13}
RequestDays == {null, 0, 1, 2, 3, 29, 31, 32}

\* Meters in the order their readings of one timestamp come back
MeterOrders == {<<"M1">>, <<"M1", "M2">>, <<"M2", "M1">>}

\* Outcome of loadMonthReadings as seen by the handler: rejected, or resolved
\* with the rows of all meters in the period in timestamp order (ORDER BY ts
\* ASC): on each of days 1..days one reading at hour 0 per meter
LoadRejected == [state |-> "rejected", year |-> 0, month |-> 0, days |-> 0, meters |-> <<>>]

LoadResolved(year, month, days, meters) ==
    [state |-> "resolved", year |-> year, month |-> month, days |-> days, meters |-> meters]

LoadedCount(load) == load.days * Len(load.meters)

LoadedRows(load) ==
    [i \in 1..LoadedCount(load) |->
        LET k == Len(load.meters)
            day == ((i - 1) \div k) + 1
            slot == ((i - 1) % k) + 1
        IN [meter_id |-> load.meters[slot],
            date |-> <<load.year, load.month, day>>,
            hour |-> 0,
            energy_consumed_kwh |-> 60 + 3 * day + 10 * slot]]

\* The period whose readings are loaded: the requested one when year and
\* month are both given, else the month of the latest reading stored
\* (here the month of the clock); a cutoff day bounds the days returned
LoadOutcomes(year, month, day, today) ==
    LET given == ~Falsy(year) /\ ~Falsy(month)
        y == IF given THEN year ELSE today[1]
        m == IF given THEN month ELSE today[2]
        top == IF given /\ IsFinite(day) /\ day < MaxLoadedDays THEN day ELSE MaxLoadedDays
    IN {LoadRejected} \cup
       {LoadResolved(y, m, n, o) : n \in 1..top, o \in MeterOrders} \cup
       (IF given THEN {LoadResolved(y, m, 0, <<>>)} ELSE {})

\* The grouped object: its keys in insertion order (meter ids are not
\* integer-like strings), and the rows of each key in arrival order
RECURSIVE KeysInOrder(_, _)
KeysInOrder(data, seen) ==
    IF data = <<>> THEN <<>>
    ELSE IF Head(data).meter_id \in seen THEN KeysInOrder(Tail(data), seen)
    ELSE <<Head(data).meter_id>> \o KeysInOrder(Tail(data), seen \cup {Head(data).meter_id})

groupByMeter(data) ==
    LET keys == KeysInOrder(data, {})
    IN [keys |-> keys,
        rows |-> [id \in {keys[i] : i \in DOMAIN keys} |->
                     LET OfMeter(row) == row.meter_id = id
                     IN SelectSeq(data, OfMeter)]]

\* Object.keys(meterGroups)
ObjectKeys(grouped) == grouped.keys

RECURSIVE SumHourly(_)
SumHourly(hours) == IF hours = <<>> THEN 0 ELSE Head(hours).energyKwh + SumHourly(Tail(hours))

predictToday(hourlyData) ==
    IF Len(hourlyData) < MIN_HOURS_REQUIRED
    THEN [success |-> FALSE,
          message |-> [text |-> "Need at least N hours of data. Currently have K hour(s).",
                       N |-> MIN_HOURS_REQUIRED, K |-> Len(hourlyData)]]
    ELSE LET todayDate == hourlyData[Len(hourlyData)].date
             IsToday(h) == h.date = todayDate
             todayHours == SelectSeq(hourlyData, IsToday)
         IN IF Len(todayHours) < MIN_HOURS_REQUIRED
            THEN [success |-> FALSE,
                  message |-> [text |-> "Need at least N hours of today's data. Currently have K hour(s).",
                               N |-> MIN_HOURS_REQUIRED, K |-> Len(todayHours)]]
            ELSE LET totalEnergyToday == SumHourly(todayHours)
                     hoursPassedToday == Len(todayHours)
                     rollingWindowSize == IF ROLLING_WINDOW_HOURS < hoursPassedToday
                                          THEN ROLLING_WINDOW_HOURS ELSE hoursPassedToday
                     recentHours == SubSeq(todayHours, hoursPassedToday - rollingWindowSize + 1,
                                           hoursPassedToday)
                     recentAverage == Rat(SumHourly(recentHours), Len(recentHours))
                 IN [success |-> TRUE,
                     date |-> todayDate,
                     hoursPassedToday |-> hoursPassedToday,
                     totalEnergyToday |-> totalEnergyToday,
                     basicPrediction |-> RatMul(Rat(totalEnergyToday, hoursPassedToday), RatInt(24)),
                     rollingPrediction |-> RatMul(recentAverage, RatInt(24)),
                     rollingWindowUsed |-> rollingWindowSize,
                     averageHourlyRate |-> Rat(totalEnergyToday, hoursPassedToday),
                     recentHourlyRate |-> recentAverage]

\* Variant: only a future period is answered with 400
Rejected_FutureOnly(validation) == ~validation.ok /\ validation.code = "FUTURE_DATE"

\* !validation.ok
Rejected(validation) == ~validation.ok

\* Variant: the entry put at the front of the list
PushMeter_Front(meters, entry) == <<entry>> \o meters

\* results.meters.push(entry)
PushMeter(meters, entry) == Append(meters, entry)

\* The hourly series of the meter the loop is at
HourlyOfMeter(load, meterId) ==
    calculateHourlyTotals(groupByMeter(Tuple(LoadedRows(load))).rows[meterId])

\* The handler up to its first await: parse, validate, answer 400 or start
\* loading the readings
Accept(year, month, day, today) ==
    LET validation == validateNotFutureSelection(year, month, day, today)
    IN /\ req' = [year |-> year, month |-> month, day |-> day, today |-> today]
       /\ http' = [NoHttp EXCEPT !.validation = validation]
       /\ IF Rejected(validation)
          THEN /\ response' = [status |-> 400, error |-> validation.message,
                                code |-> validation.code, serverTodayUtc |-> today]
               /\ calls' = calls
               /\ hpc' = "responded"
          ELSE /\ response' = NoResponse
               /\ calls' = [calls EXCEPT !.loadMonthReadings = @ + 1]
               /\ hpc' = "await_load"

Receive ==
    /\ hpc = "idle"
    /\ pc = "idle"
    /\ \E year \in RequestYears, month \in RequestMonths, day \in RequestDays,
          today \in Todays :
          Accept(year, month, day, today)
    /\ UNCHANGED <<pc, args, loc, fetched, previousMonthData, result>>
    /\ UNCHANGED others

\* loadMonthReadings settles: the catch block answers 500, or the rows are
\* grouped by meter
CurrentQuerySettles(load) ==
    IF load.state = "rejected"
    THEN /\ response' = [status |-> 500, error |-> "load failed"]
         /\ hpc' = "responded"
         /\ http' = http
    ELSE /\ http' = [http EXCEPT
                         !.data = load,
                         !.meterIds = ObjectKeys(groupByMeter(Tuple(LoadedRows(load)))),
                         !.idx = 1,
                         !.results = [totalRecords |-> LoadedCount(load), meters |-> <<>>]]
         /\ hpc' = "loop"
         /\ response' = response

LoadMonthReadings ==
    /\ hpc = "await_load"
    /\ \E load \in LoadOutcomes(req.year, req.month, req.day, req.today) :
          CurrentQuerySettles(load)
    /\ UNCHANGED <<pc, args, loc, fetched, previousMonthData, result, req, calls>>
    /\ UNCHANGED others

\* One turn of the loop up to its await: the meter's series is built and
\* predictMonthHybrid is called
PredictMeter ==
    /\ hpc = "loop"
    /\ http.idx <= Len(http.meterIds)
    /\ LET meterId == http.meterIds[http.idx]
           dailyData == calculateDailyTotals(HourlyOfMeter(http.data, meterId))
       IN predictMonthHybrid(dailyData, req.year, req.month, req.day, meterId)
    /\ hpc' = "await_predict"
    /\ UNCHANGED <<req, http, response>>
    /\ UNCHANGED others

\* The awaited prediction is there: the meter's entry is pushed
Collect ==
    /\ hpc = "await_predict"
    /\ pc = "done"
    /\ LET meterId == http.meterIds[http.idx]
           hourlyData == HourlyOfMeter(http.data, meterId)
           entry == [meterId |-> meterId,
                     hoursProcessed |-> Len(hourlyData),
                     today |-> predictToday(hourlyData),
                     month |-> result]
       IN http' = [http EXCEPT !.results.meters = PushMeter(@, entry),
                               !.idx = @ + 1]
    /\ hpc' = "loop"
    /\ pc' = "idle"
    /\ args' = NoArgs
    /\ loc' = NoLocals
    /\ fetched' = NoFetch
    /\ previousMonthData' = NoData
    /\ result' = NoResult
    /\ UNCHANGED <<req, response, calls>>
    /\ UNCHANGED others

\* After the last meter: 200 with the results
Respond ==
    /\ hpc = "loop"
    /\ http.idx > Len(http.meterIds)
    /\ response' = [status |-> 200, body |-> http.results]
    /\ hpc' = "responded"
    /\ UNCHANGED <<pc, args, loc, fetched, previousMonthData, result, req, http, calls>>
    /\ UNCHANGED others

\* The request is over; its objects are dropped
Finish ==
    /\ hpc = "responded"
    /\ hpc' = "idle"
    /\ req' = NoReq
    /\ http' = NoHttp
    /\ response' = NoResponse
    /\ calls' = NoCalls
    /\ UNCHANGED <<pc, args, loc, fetched, previousMonthData, result>>
    /\ UNCHANGED others

HandlerNext ==
    \/ Receive
    \/ LoadMonthReadings
    \/ PredictMeter
    \/ LoadPreviousMonthData
    \/ Resume
    \/ Collect
    \/ Respond
    \/ Finish

HandlerSpec == Init /\ [][HandlerNext]_vars

\* ------------------------------------------------------------------------
\* Two /api/predict requests in flight
\* ------------------------------------------------------------------------
\* Node runs one request's code at a time and passes control only where the
\* running code awaits a query.  The variables above are the state of the
\* request that has control; `parked` holds the state of the other one,
\* suspended at an await (or not arrived, or answered)
ConcurrentToday == <<2025, 3, 2>>

\* year, month and day of the requests made
ConcurrentRequests == {<<2025, 3, 2>>, <<2025, 1, 1>>}

ConcurrentMeterOrders == {<<"M1">>, <<"M2", "M1">>}

ConcurrentLoadOutcomes(year, month, day) ==
    {LoadRejected} \cup {LoadResolved(year, month, day, o) : o \in ConcurrentMeterOrders}

ConcurrentFetchOutcomes(year, month, meterId) ==
    {FetchRejected(year, month, meterId),
     FetchResolved(year, month, meterId, getDaysInMonth(year, month))}

\* The state of the request that has control
Running ==
    [pc |-> pc, args |-> args, loc |-> loc, fetched |-> fetched,
     previousMonthData |-> previousMonthData, result |-> result,
     hpc |-> hpc, req |-> req, http |-> http, response |-> response,
     calls |-> calls]

\* The running code is at an await on a query, or the request is over or
\* has not arrived
AtQueryAwait ==
    \/ hpc \in {"idle", "await_load", "responded"}
    \/ hpc = "await_predict" /\ pc = "await_previous"

\* Variant: the metrics of STEP 4 kept in variables of the module, which
\* the call that gets control finds as the other call left them
ResumedLocals_ModuleLevel(running, suspended) == running.loc

\* The locals of predictMonthHybrid a call finds when it gets control back:
\* its own (const and let declarations of the function body)
ResumedLocals(running, suspended) == suspended.loc

\* Control passes from the running request to the parked one
Switch ==
    /\ AtQueryAwait
    /\ parked # Running
    /\ parked' = Running
    /\ pc' = parked.pc
    /\ args' = parked.args
    /\ loc' = ResumedLocals(Running, parked)
    /\ fetched' = parked.fetched
    /\ previousMonthData' = parked.previousMonthData
    /\ result' = parked.result
    /\ hpc' = parked.hpc
    /\ req' = parked.req
    /\ http' = parked.http
    /\ response' = parked.response
    /\ calls' = parked.calls
    /\ UNCHANGED agg

ConcurrentReceive ==
    /\ hpc = "idle"
    /\ pc = "idle"
    /\ \E r \in ConcurrentRequests : Accept(r[1], r[2], r[3], ConcurrentToday)
    /\ UNCHANGED <<pc, args, loc, fetched, previousMonthData, result>>
    /\ UNCHANGED others

ConcurrentLoadMonthReadings ==
    /\ hpc = "await_load"
    /\ \E load \in ConcurrentLoadOutcomes(req.year, req.month, req.day) :
          CurrentQuerySettles(load)
    /\ UNCHANGED <<pc, args, loc, fetched, previousMonthData, result, req, calls>>
    /\ UNCHANGED others

ConcurrentLoadPreviousMonthData ==
    /\ pc = "await_previous"
    /\ \E outcome \in ConcurrentFetchOutcomes(loc.prevYear, loc.prevMonth, args.meterId) :
          PriorQuerySettles(outcome)
    /\ pc' = "resume"
    /\ UNCHANGED <<args, loc, result, calls>>
    /\ UNCHANGED hvars
    /\ UNCHANGED others

ConcurrentNext ==
    \/ ConcurrentReceive
    \/ ConcurrentLoadMonthReadings
    \/ PredictMeter
    \/ ConcurrentLoadPreviousMonthData
    \/ Resume
    \/ Collect
    \/ Respond
    \/ Finish
    \/ Switch

ConcurrentSpec == Init /\ [][ConcurrentNext]_vars

\* ------------------------------------------------------------------------
\* The aggregation pipeline on its own
\* ------------------------------------------------------------------------
MaxReadings == 3        \* readings given to the pipeline

ReadingDates == {<<2024, 12, 31>>, <<2025, 1, 1>>, <<2025, 1, 2>>}
ReadingHours == {9, 10}
ReadingEnergies == {1, 2}

\* Rows of one meter, in any order
ReadingRows ==
    {[meter_id |-> MeterId, date |-> d, hour |-> h, energy_consumed_kwh |-> e] :
        d \in ReadingDates, h \in ReadingHours, e \in ReadingEnergies}

ReadingSeqs == UNION {[1..n -> ReadingRows] : n \in 0..MaxReadings}

AggregationInit ==
    /\ Quiescent
    /\ \E readings \in ReadingSeqs :
          agg = [stage |-> "readings", readings |-> readings, hourly |-> <<>>, daily |-> <<>>]

CalculateHourlyTotals ==
    /\ agg.stage = "readings"
    /\ agg' = [agg EXCEPT !.stage = "hourly",
                          !.hourly = calculateHourlyTotals(agg.readings)]
    /\ UNCHANGED <<pc, args, loc, fetched, previousMonthData, result,
                   hpc, req, http, response, calls, parked>>

CalculateDailyTotals ==
    /\ agg.stage = "hourly"
    /\ agg' = [agg EXCEPT !.stage = "daily",
                          !.daily = calculateDailyTotals(agg.hourly)]
    /\ UNCHANGED <<pc, args, loc, fetched, previousMonthData, result,
                   hpc, req, http, response, calls, parked>>

AggregationNext == CalculateHourlyTotals \/ CalculateDailyTotals

AggregationSpec == AggregationInit /\ [][AggregationNext]_vars

\* ------------------------------------------------------------------------
\* Properties of the prediction result
\* ------------------------------------------------------------------------
\* A call has returned a prediction (success: true)
Succeeded == pc = "done" /\ result.success

RECURSIVE EnergyOfEntries(_, _)
EnergyOfEntries(series, S) ==
    IF S = {} THEN 0
    ELSE LET i == CHOOSE j \in S : TRUE
         IN series[i].energyKwh + EnergyOfEntries(series, S \ {i})

\* Entries of the call's series that lie in the predicted period, up to the
\* cutoff day when one was given
ObservedEntries ==
    {i \in DOMAIN args.dailyData :
        /\ args.dailyData[i].date[1] = result.year
        /\ args.dailyData[i].date[2] = result.month
        /\ (args.targetDay = null \/ args.dailyData[i].date[3] <= args.targetDay)}

ObservedTotal == EnergyOfEntries(args.dailyData, ObservedEntries)

PriorYear == IF result.month = 1 THEN result.year - 1 ELSE result.year
PriorMonth == IF result.month = 1 THEN 12 ELSE result.month - 1

\* Distinct dates among the rows the prior-period query returned
PriorDates == {RowsOf(fetched)[i].date : i \in 1..RowCount(fetched)}

\* C1: a successful prediction is in standard mode exactly when at least 3
\* days are observed or the period is complete, and then carries no hybrid
\* detail
C1_StandardIffEnoughOrComplete ==
    Succeeded =>
        /\ (result.predictionMode = "standard")
               <=> (result.daysPassedMonth >= 3 \/ result.isComplete)
        /\ result.predictionMode = "standard" => IsNullMetadata(result.hybrid)

C1_Witness ==
    /\ Succeeded
    /\ result.predictionMode = "standard"
    /\ result.daysPassedMonth < 3
    /\ result.isComplete
    /\ IsNullMetadata(result.hybrid)

\* C2: hybrid mode is only reported with fewer than 3 observed days on an
\* incomplete period, and with a non-empty prior series from the loader whose
\* distinct dates cover at least half of the previous month
C2_HybridNeedsPriorCoverage ==
    (Succeeded /\ result.predictionMode = "hybrid") =>
        /\ result.daysPassedMonth < 3
        /\ ~result.isComplete
        /\ previousMonthData.state = "data"
        /\ Len(previousMonthData.data) > 0
        /\ LET dates == {previousMonthData.data[i].date : i \in DOMAIN previousMonthData.data}
           IN /\ Cardinality(dates) = Len(previousMonthData.data)
              /\ dates = PriorDates
              /\ 2 * Cardinality(dates) >= getDaysInMonth(PriorYear, PriorMonth)

C2_Witness ==
    /\ Succeeded
    /\ result.predictionMode = "hybrid"
    /\ 2 * Len(previousMonthData.data) = getDaysInMonth(PriorYear, PriorMonth)

\* The prior-period series is unavailable: the query failed, returned no
\* rows, or its dates cover less than half of the previous month
PriorUnavailable ==
    \/ fetched.state = "rejected"
    \/ /\ fetched.state = "resolved"
       /\ \/ RowCount(fetched) = 0
          \/ 2 * Cardinality(PriorDates) < getDaysInMonth(PriorYear, PriorMonth)

C4_CompleteIsExact ==
    (Succeeded /\ result.isComplete) =>
        result.predictedMonthKwh = result.totalEnergyMonth

C4_Witness ==
    /\ Succeeded
    /\ result.isComplete
    /\ result.daysPassedMonth = result.daysInCurrentMonth
    /\ result.predictedMonthKwh = result.totalEnergyMonth
    /\ result.totalEnergyMonth > 0

C6_PercentInRange ==
    Succeeded =>
        /\ RatLeq(RatInt(0), loc.percentComplete)
        /\ RatLeq(loc.percentComplete, RatInt(100))
        /\ result.percentMonthComplete \in 0..1000

C6_Witness ==
    /\ Succeeded
    /\ args.targetDay # null
    /\ args.targetDay > result.daysInCurrentMonth
    /\ loc.percentComplete = RatInt(100)

C9_RunRateProjection ==
    (/\ Succeeded
     /\ \/ result.predictionMode = "standard" /\ ~result.isComplete
        \/ result.predictionMode = "standard_fallback") =>
        /\ loc.predictedMonthKwh
               = Rat(ObservedTotal * result.daysInCurrentMonth, result.daysPassedMonth)
        /\ result.predictedMonthKwh
               = ToFixed2(Rat(ObservedTotal * result.daysInCurrentMonth,
                              result.daysPassedMonth))

C9_Witness ==
    /\ Succeeded
    /\ result.predictionMode = "standard"
    /\ ~result.isComplete
    /\ result.daysPassedMonth = 3
    /\ result.daysInCurrentMonth = 31
    /\ result.predictedMonthKwh > result.totalEnergyMonth

\* C10: with the hybrid-status inputs and the period length of a prediction,
\* the confidence score of no smaller number of observed days exceeds the
\* prediction's score
C10_ConfidenceMonotone ==
    Succeeded =>
        \A d \in 1..result.daysPassedMonth :
            calculateConfidenceHybrid(d, result.daysInCurrentMonth, loc.useHybridMode,
                                      HasPreviousMonth(result.hybrid)).score
                <= result.confidence.score

Validated == hpc # "idle"

\* The requested (year, month) is after the clock's (year, month)
PeriodAfterToday ==
    /\ IsFinite(req.year) /\ IsFinite(req.month)
    /\ \/ req.year > req.today[1]
       \/ req.year = req.today[1] /\ req.month > req.today[2]

\* The requested day is a day of the requested (year, month)
DayInMonth ==
    /\ IsFinite(req.year) /\ IsFinite(req.month) /\ IsFinite(req.day)
    /\ req.day >= 1
    /\ req.day <= getDaysInMonth(req.year, req.month)

\* The requested full date is after the clock's date
DateAfterToday ==
    \/ req.year > req.today[1]
    \/ req.year = req.today[1] /\ req.month > req.today[2]
    \/ req.year = req.today[1] /\ req.month = req.today[2] /\ req.day > req.today[3]

\* No period requested, or a month in 1..12 with, when a day is given, a day
\* of that month
WellFormed ==
    IF IsFinite(req.year) /\ IsFinite(req.month)
    THEN req.month \in 1..12 /\ (IsFinite(req.day) => DayInMonth)
    ELSE ~IsFinite(req.day)

FutureDateRejection == ~http.validation.ok /\ http.validation.code = "FUTURE_DATE"

InvalidDateRejection == ~http.validation.ok /\ http.validation.code = "INVALID_DATE"

\* C12 as stated: every request whose (year, month) is after the current
\* (year, month) is rejected with FUTURE_DATE, with or without a day; so is
\* every request with a valid day whose date is after today; every
\* well-formed request for today or earlier is accepted
C12_FutureAlwaysRejected ==
    Validated =>
        /\ PeriodAfterToday => FutureDateRejection
        /\ (DayInMonth /\ DateAfterToday) => FutureDateRejection
        /\ (WellFormed /\ ~PeriodAfterToday /\ ~(DayInMonth /\ DateAfterToday))
               => http.validation.ok

\* C12 amended: the first part only for a month in 1..12 (a later
\* (year, month) whose month is outside 1..12 is answered with INVALID_DATE),
\* and a valid day is a day of a month in 1..12
C12_FutureRejectedForCalendarMonths ==
    Validated =>
        /\ (PeriodAfterToday /\ req.month \in 1..12) => FutureDateRejection
        /\ (PeriodAfterToday /\ req.month \notin 1..12) => InvalidDateRejection
        /\ (DayInMonth /\ req.month \in 1..12 /\ DateAfterToday) => FutureDateRejection
        /\ (WellFormed /\ ~PeriodAfterToday /\ ~(DayInMonth /\ DateAfterToday))
               => http.validation.ok

C12_Witness ==
    /\ hpc = "responded"
    /\ response.status = 400
    /\ response.code = "FUTURE_DATE"
    /\ req.year = req.today[1]
    /\ req.month = req.today[2]
    /\ DayInMonth
    /\ req.day = req.today[3] + 1

C14_RejectedBeforeAnyLoad ==
    (Validated /\ ~http.validation.ok) =>
        /\ response.status = 400
        /\ calls.loadMonthReadings = 0
        /\ calls.loadPreviousMonthData = 0
        /\ calls.predictMonthHybrid = 0
        /\ http.data = NoLoad
        /\ pc = "idle"

C14_Witness ==
    /\ hpc = "responded"
    /\ response.status = 400
    /\ response.code = "INVALID_DATE"
    /\ IsFinite(req.year)
    /\ calls = NoCalls

\* The period the call is about: the requested one, else that of the latest
\* entry of the series
TargetYear ==
    IF Falsy(args.targetYear) \/ Falsy(args.targetMonth)
    THEN args.dailyData[Len(args.dailyData)].date[1] ELSE args.targetYear

TargetMonth ==
    IF Falsy(args.targetYear) \/ Falsy(args.targetMonth)
    THEN args.dailyData[Len(args.dailyData)].date[2] ELSE args.targetMonth

\* Entries of the series in the target period, up to the cutoff day
PassingEntries ==
    IF args.dailyData = <<>> THEN {}
    ELSE {i \in DOMAIN args.dailyData :
             /\ args.dailyData[i].date[1] = TargetYear
             /\ args.dailyData[i].date[2] = TargetMonth
             /\ (args.targetDay = null \/ args.dailyData[i].date[3] <= args.targetDay)}

C16_MessageHasPeriodAndCount ==
    (pc = "done" /\ ~result.success /\ args.dailyData # <<>>) =>
        /\ "year" \in DOMAIN result.message
        /\ "month" \in DOMAIN result.message
        /\ "K" \in DOMAIN result.message

\* C17: when the prior-period query fails, returns no rows or returns too
\* few dates, the prediction succeeds in standard_fallback mode with a score
\* below the one the same days would get with prior data, and no request is
\* answered with an error after a prior-period load
C17_PriorFailureAbsorbed ==
    /\ (pc = "done" /\ fetched.state # "none" /\ PriorUnavailable) =>
           /\ result.success
           /\ result.predictionMode = "standard_fallback"
           /\ result.confidence.score
                  < calculateConfidenceHybrid(result.daysPassedMonth,
                                              result.daysInCurrentMonth, TRUE, TRUE).score
    /\ response.status \in {400, 500} => calls.loadPreviousMonthData = 0
    /\ (response.status = 200 /\ calls.loadPreviousMonthData > 0) =>
           \A i \in DOMAIN response.body.meters : response.body.meters[i].month.success

C17_Witness ==
    /\ response.status = 200
    /\ calls.loadPreviousMonthData = 2
    /\ \A i \in DOMAIN response.body.meters :
           response.body.meters[i].month.predictionMode = "standard_fallback"

\* C18: in one call the prior-period loader is invoked at most once, only
\* on the hybrid path (fewer than 3 observed days, period incomplete), and
\* never when the call ends in standard mode or in insufficient data
C18_LoaderOnceOnHybridPathOnly ==
    /\ calls.loadPreviousMonthData <= 1
    /\ calls.loadPreviousMonthData = 1 =>
           /\ pc \in {"await_previous", "resume", "done"}
           /\ loc.useHybridMode
           /\ loc.daysPassedMonth < 3
           /\ ~loc.isComplete
    /\ pc = "done" =>
           IF ~result.success
           THEN calls.loadPreviousMonthData = 0 /\ fetched = NoFetch
           ELSE (result.daysPassedMonth >= 3 \/ result.isComplete)
                    => (calls.loadPreviousMonthData = 0 /\ fetched = NoFetch)

C18_Witness ==
    /\ pc = "done"
    /\ result.success
    /\ fetched.state = "rejected"
    /\ calls.loadPreviousMonthData = 1

\* Meter ids of the loaded readings in the order of their first reading
FirstReading(id) ==
    CHOOSE i \in 1..LoadedCount(http.data) :
        /\ LoadedRows(http.data)[i].meter_id = id
        /\ \A j \in 1..(i - 1) : LoadedRows(http.data)[j].meter_id # id

LoadedMeters == {LoadedRows(http.data)[i].meter_id : i \in 1..LoadedCount(http.data)}

\* C20: the meters list has one entry per distinct meter id of the loaded
\* readings, in the order of each meter's first reading, whatever the
\* outcomes of the prior-period loads
C20_OneEntryPerMeterInLoadedOrder ==
    /\ response.status = 200 =>
           LET meters == response.body.meters
           IN /\ {meters[i].meterId : i \in DOMAIN meters} = LoadedMeters
              /\ Len(meters) = Cardinality(LoadedMeters)
    /\ hpc \in {"loop", "await_predict", "responded"} =>
           LET meters == http.results.meters
           IN \A i, j \in DOMAIN meters :
                  i < j => FirstReading(meters[i].meterId) < FirstReading(meters[j].meterId)

C20_Witness ==
    /\ response.status = 200
    /\ Len(response.body.meters) = 2
    /\ response.body.meters[1].meterId = "M2"
    /\ response.body.meters[1].month.predictionMode = "standard_fallback"
    /\ response.body.meters[2].month.predictionMode = "hybrid"

\* ------------------------------------------------------------------------
\* Further properties of the prediction result
\* ------------------------------------------------------------------------
\* C22: the previous period of (year, 1) is (year - 1, 12) and of any other
\* (year, month) is (year, month - 1); its month is in 1..12, and the prior
\* series the engine loads is that of this period (December of the year
\* before when January is predicted)
C22_PreviousMonthRollsOver ==
    /\ pc \in {"await_previous", "resume"} =>
           /\ loc.prevMonth \in 1..12
           /\ loc.prevYear = IF loc.month = 1 THEN loc.year - 1 ELSE loc.year
           /\ loc.prevMonth = IF loc.month = 1 THEN 12 ELSE loc.month - 1
    /\ fetched.state # "none" =>
           /\ fetched.month \in 1..12
           /\ fetched.year = IF loc.month = 1 THEN loc.year - 1 ELSE loc.year
           /\ fetched.month = IF loc.month = 1 THEN 12 ELSE loc.month - 1
    /\ (Succeeded /\ result.predictionMode = "hybrid") =>
           /\ result.hybrid.previousMonth.month \in 1..12
           /\ result.hybrid.previousMonth.year
                  = IF result.month = 1 THEN result.year - 1 ELSE result.year
           /\ result.hybrid.previousMonth.month
                  = IF result.month = 1 THEN 12 ELSE result.month - 1

C22_Witness ==
    /\ Succeeded
    /\ result.predictionMode = "hybrid"
    /\ result.year = 2025
    /\ result.month = 1
    /\ fetched.year = 2024
    /\ fetched.month = 12
    /\ result.hybrid.previousMonth.totalDays = 31

\* C24: with the cutoff day on the last day of the period and an entry for
\* every day, the result is complete, 100.0 percent, an actual value in
\* standard mode, its predicted total is the observed total and its
\* confidence is exact with score 100
C24_CompleteMonthIsActual ==
    (/\ Succeeded
     /\ args.targetDay = result.daysInCurrentMonth
     /\ result.daysPassedMonth = result.daysInCurrentMonth) =>
        /\ result.isComplete
        /\ result.percentMonthComplete = 1000
        /\ result.valueSource = "actual"
        /\ result.predictionMode = "standard"
        /\ IsNullMetadata(result.hybrid)
        /\ loc.predictedMonthKwh = RatInt(ObservedTotal)
        /\ result.predictedMonthKwh = ToFixed2(RatInt(ObservedTotal))
        /\ result.predictedMonthKwh = result.totalEnergyMonth
        /\ result.confidence.level = "exact"
        /\ result.confidence.score = 100

C24_Witness ==
    /\ Succeeded
    /\ args.targetDay = 29
    /\ result.daysInCurrentMonth = 29
    /\ result.daysPassedMonth = 29
    /\ result.confidence.score = 100

C29_PredictedAtLeastObserved ==
    Succeeded =>
        /\ RatLeq(RatInt(ObservedTotal), loc.predictedMonthKwh)
        /\ result.predictedMonthKwh >= result.totalEnergyMonth
        /\ result.totalEnergyMonth = ToFixed2(RatInt(ObservedTotal))

C29_Witness ==
    /\ Succeeded
    /\ result.predictionMode = "standard"
    /\ ~result.isComplete
    /\ 2 * result.daysPassedMonth > result.daysInCurrentMonth
    /\ result.predictedMonthKwh > result.totalEnergyMonth

\* C23: in hybrid mode the weights are 25% current / 75% previous with one
\* observed day and 40% current / 60% previous with two
C23_DocumentedWeights ==
    (Succeeded /\ result.predictionMode = "hybrid") =>
        LET w == result.hybrid.weights
        IN /\ result.daysPassedMonth = 1 =>
                  (w.current = Rat(25, 100) /\ w.previous = Rat(75, 100))
           /\ result.daysPassedMonth = 2 =>
                  (w.current = Rat(40, 100) /\ w.previous = Rat(60, 100))

\* Averages of the observed entries and of the prior series in hybrid mode
AvgCurrent == Rat(ObservedTotal, result.daysPassedMonth)

AvgPrevious ==
    Rat(EnergyOfEntries(previousMonthData.data, DOMAIN previousMonthData.data),
        Len(previousMonthData.data))

RatDist(a, b) == IF RatLeq(a, b) THEN RatSub(b, a) ELSE RatSub(a, b)

\* C25: every divisor is strictly positive where a division uses it: the
\* observed days and the days in the period from STEP 4 on, the days of the
\* prior month where the completeness of a loaded series is computed, and
\* the entry count of the prior series where its average is taken
C25_DivisorsPositive ==
    /\ (pc \in {"await_previous", "resume"} \/ Succeeded) =>
           /\ loc.daysPassedMonth > 0
           /\ loc.daysInCurrentMonth > 0
    /\ Succeeded =>
           /\ result.daysPassedMonth > 0
           /\ result.daysInCurrentMonth > 0
    /\ (fetched.state = "resolved" /\ RowCount(fetched) > 0) =>
           getDaysInMonth(fetched.year, fetched.month) > 0
    /\ (pc \in {"resume", "done"} /\ PriorUsable(previousMonthData)) =>
           Len(previousMonthData.data) > 0
    /\ (Succeeded /\ result.predictionMode = "hybrid") =>
           /\ previousMonthData.state = "data"
           /\ Len(previousMonthData.data) > 0
           /\ result.hybrid.previousMonth.daysUsed > 0
           /\ result.hybrid.previousMonth.totalDays > 0

C25_Witness ==
    /\ Succeeded
    /\ result.predictionMode = "hybrid"
    /\ result.daysPassedMonth = 1
    /\ args.targetDay = 1
    /\ Len(args.dailyData) > 1
    /\ 2 * result.hybrid.previousMonth.daysUsed = result.hybrid.previousMonth.totalDays

\* C27: in hybrid mode on an incomplete period whose current average is
\* below the prior average, the predicted total is strictly above the
\* run-rate projection avgCurrent * daysInPeriod and strictly closer to
\* avgPrevious * daysInPeriod than that projection is
C27_HybridPullsTowardsPrior ==
    (/\ Succeeded
     /\ result.predictionMode = "hybrid"
     /\ result.daysPassedMonth < result.daysInCurrentMonth
     /\ RatLess(AvgCurrent, AvgPrevious)) =>
        LET runRate == RatMul(AvgCurrent, RatInt(result.daysInCurrentMonth))
            priorRate == RatMul(AvgPrevious, RatInt(result.daysInCurrentMonth))
        IN /\ RatLess(runRate, loc.predictedMonthKwh)
           /\ RatLess(RatDist(loc.predictedMonthKwh, priorRate),
                      RatDist(runRate, priorRate))

C27_Witness ==
    /\ Succeeded
    /\ result.predictionMode = "hybrid"
    /\ result.daysPassedMonth = 2
    /\ result.daysPassedMonth < result.daysInCurrentMonth
    /\ RatLess(AvgCurrent, AvgPrevious)
    /\ RatLess(RatMul(AvgCurrent, RatInt(result.daysInCurrentMonth)),
               loc.predictedMonthKwh)

\* The rate the result reports, from the observed entries and the prior
\* series: the blend in hybrid mode, the current average otherwise
ExpectedDailyRate ==
    IF result.predictionMode = "hybrid"
    THEN LET wc == IF result.daysPassedMonth = 2 THEN Rat(1, 2) ELSE Rat(3, 10)
         IN RatAdd(RatMul(AvgCurrent, wc),
                   RatMul(AvgPrevious, RatSub(RatInt(1), wc)))
    ELSE AvgCurrent

HybridIncomplete ==
    /\ Succeeded
    /\ result.predictionMode = "hybrid"
    /\ result.daysPassedMonth < result.daysInCurrentMonth

RateOverRemainingDays ==
    RatAdd(RatInt(ObservedTotal),
           RatMul(loc.averageDailyRate,
                  RatInt(result.daysInCurrentMonth - result.daysPassedMonth)))

RateOverWholePeriod == RatMul(loc.averageDailyRate, RatInt(result.daysInCurrentMonth))

C28_DailyTotalsOfReadings ==
    agg.stage = "daily" =>
        LET readings == agg.readings
            daily == agg.daily
            dates == {readings[i].date : i \in DOMAIN readings}
        IN /\ Len(daily) = Cardinality(dates)
           /\ {daily[k].date : k \in DOMAIN daily} = dates
           /\ \A k \in 1..(Len(daily) - 1) : DateLess(daily[k].date, daily[k + 1].date)
           /\ \A k \in DOMAIN daily :
                  daily[k].energyKwh
                      = SumRows(readings, {i \in DOMAIN readings :
                                              readings[i].date = daily[k].date})
           /\ SumEnergy(daily) = SumRows(readings, DOMAIN readings)

C28_Witness ==
    /\ agg.stage = "daily"
    /\ Len(agg.readings) = 3
    /\ Len(agg.hourly) = 3
    /\ Len(agg.daily) = 2
    /\ DateLess(agg.readings[3].date, agg.readings[1].date)
    /\ agg.readings[2].date = agg.readings[1].date
    /\ SumEnergy(agg.daily) = 5

\* ------------------------------------------------------------------------
\* Properties of requests in flight together
\* ------------------------------------------------------------------------
\* What predictMonthHybrid returns for a call when nothing else runs: the
\* steps of the function in sequence, on the call's arguments and the
\* outcome of its own prior-period query
ResultWhenAlone(a, f) ==
    IF Len(a.dailyData) < MIN_DAYS_REQUIRED THEN TooFewDays(a.dailyData)
    ELSE LET m == CurrentMetrics(a.dailyData, a.targetYear, a.targetMonth, a.targetDay)
         IN IF InsufficientMonthData(m.daysPassedMonth)
            THEN TooFewDaysOfMonth(m.year, m.month)
            ELSE IF ~m.useHybridMode
            THEN BuildResult(m, StandardPrediction(m), a.targetDay)
            ELSE LET prev == loadPreviousMonthData(f, m.prevYear, m.prevMonth)
                     p == IF PriorUsable(prev)
                          THEN HybridPrediction(m, prev.data)
                          ELSE FallbackPrediction(m)
                 IN BuildResult(m, p, a.targetDay)

\* Positions of the rows of a meter among the rows a request loaded
RowsOfMeter(s, meterId) ==
    {i \in 1..LoadedCount(s.http.data) : LoadedRows(s.http.data)[i].meter_id = meterId}

\* A request's state holds only what its own rows, its own parameters and
\* its own prior-period queries give
OwnDataOnly(s) ==
    /\ s.hpc = "await_predict" =>
           LET meterId == s.http.meterIds[s.http.idx]
               rows == LoadedRows(s.http.data)
           IN /\ s.args.meterId = meterId
              /\ s.args.targetYear = s.req.year
              /\ s.args.targetMonth = s.req.month
              /\ s.args.targetDay = s.req.day
              /\ Len(s.args.dailyData)
                     = Cardinality({rows[i].date : i \in RowsOfMeter(s, meterId)})
              /\ \A k \in DOMAIN s.args.dailyData :
                     s.args.dailyData[k].energyKwh
                         = SumRows(rows, {i \in RowsOfMeter(s, meterId) :
                                             rows[i].date = s.args.dailyData[k].date})
    /\ s.pc \in {"await_previous", "resume"} =>
           /\ s.loc.year = s.req.year
           /\ s.loc.month = s.req.month
           /\ s.loc.totalEnergyMonth
                  = SumRows(LoadedRows(s.http.data), RowsOfMeter(s, s.args.meterId))
    /\ s.fetched.state # "none" =>
           /\ s.fetched.meter = s.args.meterId
           /\ s.fetched.year = (IF s.req.month = 1 THEN s.req.year - 1 ELSE s.req.year)
           /\ s.fetched.month = (IF s.req.month = 1 THEN 12 ELSE s.req.month - 1)
    /\ s.pc = "done" => s.result = ResultWhenAlone(s.args, s.fetched)
    /\ \A i \in DOMAIN s.http.results.meters :
           LET entry == s.http.results.meters[i]
           IN /\ entry.meterId = s.http.meterIds[i]
              /\ entry.month.success =>
                     /\ entry.month.year = s.req.year
                     /\ entry.month.month = s.req.month
                     /\ entry.month.totalEnergyMonth
                            = ToFixed2(RatInt(SumRows(LoadedRows(s.http.data),
                                                      RowsOfMeter(s, entry.meterId))))
                     /\ entry.month.predictionMode = "hybrid" =>
                            /\ entry.month.hybrid.previousMonth.year
                                   = (IF s.req.month = 1 THEN s.req.year - 1 ELSE s.req.year)
                            /\ entry.month.hybrid.previousMonth.month
                                   = (IF s.req.month = 1 THEN 12 ELSE s.req.month - 1)

====
